---------------------------- MODULE Spec2Model ----------------------------
(***************************************************************************)
(* Model of gmail.py: the label resolver, the paginating message lister,   *)
(* the MIME body extractor with its decoding and HTML stripping, the field *)
(* extractor, the sheet appender and the orchestrator main().              *)
(*                                                                         *)
(* Representation.  A Python str is a sequence of code points (naturals).  *)
(* A base64url body ("data") is a sequence of one-character strings; the   *)
(* empty sequence stands for a missing, None or empty "data", which the    *)
(* code tests alike (truthiness).  A MIME part is a record                 *)
(* [mimeType, data, parts]; parts = <<>> stands for a part without a       *)
(* "parts" key or with an empty one: both run the loop of line 89 zero     *)
(* times and fall to line 106.  A function that can raise returns a record *)
(* [exc, val]; exc = "none" means it returned val.                         *)
(***************************************************************************)
EXTENDS Integers, Sequences, FiniteSets, TLC

(***************************************************************************)
(* Bounds of the model.                                                    *)
(***************************************************************************)
MaxNodes == 4
MaxMsgs == 3
MaxPages == 2

(***************************************************************************)
(* Text primitives of the Python runtime used by the program.              *)
(***************************************************************************)
LF == 10
LT == 60
GT == 62
SLASH == 47

\* str.isspace / regex \s on the code points the model's texts use.
IsSpace(c) == c \in {9, 10, 11, 12, 13, 28, 29, 30, 31, 32, 133, 160}

RECURSIVE LStrip(_)
LStrip(s) == IF s # <<>> /\ IsSpace(Head(s)) THEN LStrip(Tail(s)) ELSE s

RECURSIVE RStrip(_)
RStrip(s) ==
    IF s # <<>> /\ IsSpace(s[Len(s)]) THEN RStrip(SubSeq(s, 1, Len(s) - 1)) ELSE s

\* str.strip()
Strip(s) == RStrip(LStrip(s))

\* str.lower() on the ASCII letters.
LowerChar(c) == IF c >= 65 /\ c <= 90 THEN c + 32 ELSE c

Ok(v) == [exc |-> "none", val |-> v]

Raised(e) == [exc |-> e, val |-> <<>>]

\* The 64 symbols of the URL-safe alphabet, in value order.
B64Chars ==
    << "A","B","C","D","E","F","G","H","I","J","K","L","M","N","O","P",
       "Q","R","S","T","U","V","W","X","Y","Z","a","b","c","d","e","f",
       "g","h","i","j","k","l","m","n","o","p","q","r","s","t","u","v",
       "w","x","y","z","0","1","2","3","4","5","6","7","8","9","-","_" >>

\* The value of every symbol; urlsafe_b64decode first maps "-" and "_" to
\* "+" and "/", so both spellings of the last two symbols are accepted.
B64Table ==
    [c \in {B64Chars[i] : i \in 1..64} \cup {"+", "/"} |->
        IF c = "+" THEN 62
        ELSE IF c = "/" THEN 63
        ELSE (CHOOSE i \in 1..64 : B64Chars[i] = c) - 1]

IsB64Char(c) == c \in DOMAIN B64Table

B64Value(c) == B64Table[c]

\* binascii.a2b_base64 in its default non-strict mode: symbols outside the
\* alphabet are skipped, a complete pad sequence ends the input, and input
\* that ends inside a quad raises binascii.Error.
RECURSIVE A2B(_, _, _, _, _, _)
A2B(s, i, quad_pos, leftchar, pads, out) ==
    IF i > Len(s)
    THEN IF quad_pos # 0 THEN Raised("binascii.Error") ELSE Ok(out)
    ELSE IF s[i] = "="
    THEN IF quad_pos >= 2 /\ quad_pos + pads + 1 >= 4
         THEN Ok(out)
         ELSE A2B(s, i + 1, quad_pos, leftchar,
                  IF quad_pos >= 2 THEN pads + 1 ELSE pads, out)
    ELSE IF ~IsB64Char(s[i])
    THEN A2B(s, i + 1, quad_pos, leftchar, pads, out)
    ELSE LET v == B64Value(s[i]) IN
         CASE quad_pos = 0 -> A2B(s, i + 1, 1, v, 0, out)
           [] quad_pos = 1 ->
                A2B(s, i + 1, 2, v % 16, 0, Append(out, leftchar * 4 + (v \div 16)))
           [] quad_pos = 2 ->
                A2B(s, i + 1, 3, v % 4, 0, Append(out, leftchar * 16 + (v \div 4)))
           [] OTHER ->
                A2B(s, i + 1, 0, 0, 0, Append(out, leftchar * 64 + v))

urlsafe_b64decode(s) == A2B(s, 1, 0, 0, 0, <<>>)

\* bytes.decode("utf-8", errors="ignore") on bytes below 0xE0: ASCII bytes
\* are themselves, a lead byte 0xC2..0xDF with its continuation byte is one
\* code point, every other byte is dropped.
RECURSIVE Utf8Ignore(_)
Utf8Ignore(b) ==
    IF b = <<>> THEN <<>>
    ELSE IF Head(b) < 128 THEN <<Head(b)>> \o Utf8Ignore(Tail(b))
    ELSE IF /\ Head(b) >= 194 /\ Head(b) <= 223 /\ Len(b) >= 2
            /\ b[2] >= 128 /\ b[2] <= 191
    THEN <<(Head(b) - 192) * 64 + (b[2] - 128)>> \o Utf8Ignore(Tail(Tail(b)))
    ELSE Utf8Ignore(Tail(b))

\* decode_part: URL-safe base64, then UTF-8 ignoring undecodable bytes.
decode_part(data_b64) ==
    LET r == urlsafe_b64decode(data_b64) IN
    IF r.exc # "none" THEN r ELSE Ok(Utf8Ignore(r.val))

(***************************************************************************)
(* strip_html: five regular-expression rewrites, then strip().             *)
(***************************************************************************)
\* Literals the patterns name, as code points.
TagScript == <<115, 99, 114, 105, 112, 116>>  \* script
TagStyle == <<115, 116, 121, 108, 101>>       \* style
OpenBr == <<60, 98, 114>>                     \* <br
CloseP == <<60, 47, 112>>                     \* </p

\* lit occurs in s at position i.
MatchAt(s, i, lit) ==
    /\ i + Len(lit) - 1 <= Len(s)
    /\ \A k \in 1..Len(lit) : s[i + k - 1] = lit[k]

\* The same under (?i).
MatchAtCI(s, i, lit) ==
    /\ i + Len(lit) - 1 <= Len(s)
    /\ \A k \in 1..Len(lit) : LowerChar(s[i + k - 1]) = LowerChar(lit[k])

\* Least position >= i holding c, 0 when there is none.
FindChar(s, i, c) ==
    IF \E j \in i..Len(s) : s[j] = c
    THEN CHOOSE j \in i..Len(s) : s[j] = c /\ \A k \in i..(j - 1) : s[k] # c
    ELSE 0

\* Least position >= i where lit occurs ignoring case, 0 when there is none.
FindLitCI(s, i, lit) ==
    IF \E j \in i..Len(s) : MatchAtCI(s, j, lit)
    THEN CHOOSE j \in i..Len(s) :
             MatchAtCI(s, j, lit) /\ \A k \in i..(j - 1) : ~MatchAtCI(s, k, lit)
    ELSE 0

\* First position after the run of \s that starts at i.
RECURSIVE SkipSpace(_, _)
SkipSpace(s, i) == IF i <= Len(s) /\ IsSpace(s[i]) THEN SkipSpace(s, i + 1) ELSE i

\* First position after the run of [ \t] that starts at i.
RECURSIVE SkipBlank(_, _)
SkipBlank(s, i) == IF i <= Len(s) /\ s[i] \in {32, 9} THEN SkipBlank(s, i + 1) ELSE i

\* Last position of a match of (?is)<name.*?>.*?(</name>) starting at i, 0
\* when there is none: the lazy .*? stops at the first ">" after the name and
\* then at the first closing tag after that ">".
ElementEnd(s, i, name) ==
    IF ~(i <= Len(s) /\ s[i] = LT /\ MatchAtCI(s, i + 1, name)) THEN 0
    ELSE LET p == FindChar(s, i + 1 + Len(name), GT) IN
         IF p = 0 THEN 0
         ELSE LET q == FindLitCI(s, p + 1, <<LT, SLASH>> \o name \o <<GT>>) IN
              IF q = 0 THEN 0 ELSE q + Len(name) + 2

\* The alternation (script|style) tries script first.
ScriptStyleEnd(s, i) ==
    IF ElementEnd(s, i, TagScript) # 0 THEN ElementEnd(s, i, TagScript)
    ELSE ElementEnd(s, i, TagStyle)

\* re.sub(r"(?is)<(script|style).*?>.*?(</\1>)", "", html), from position i.
RECURSIVE SubScriptStyle(_, _)
SubScriptStyle(s, i) ==
    IF i > Len(s) THEN <<>>
    ELSE IF ScriptStyleEnd(s, i) # 0 THEN SubScriptStyle(s, ScriptStyleEnd(s, i) + 1)
    ELSE <<s[i]>> \o SubScriptStyle(s, i + 1)

\* Last position of a match of <br\s*/?> starting at i, 0 when there is none.
BrEnd(s, i) ==
    IF ~MatchAt(s, i, OpenBr) THEN 0
    ELSE LET j == SkipSpace(s, i + 3)
             k == IF j <= Len(s) /\ s[j] = SLASH THEN j + 1 ELSE j
         IN IF k <= Len(s) /\ s[k] = GT THEN k ELSE 0

\* re.sub(r"(?s)<br\s*/?>", "\n", text), from position i.
RECURSIVE SubBr(_, _)
SubBr(s, i) ==
    IF i > Len(s) THEN <<>>
    ELSE IF BrEnd(s, i) # 0 THEN <<LF>> \o SubBr(s, BrEnd(s, i) + 1)
    ELSE <<s[i]>> \o SubBr(s, i + 1)

\* Last position of a match of </p\s*> starting at i, 0 when there is none.
ClosePEnd(s, i) ==
    IF ~MatchAt(s, i, CloseP) THEN 0
    ELSE LET j == SkipSpace(s, i + 3)
         IN IF j <= Len(s) /\ s[j] = GT THEN j ELSE 0

\* re.sub(r"(?s)</p\s*>", "\n\n", text), from position i.
RECURSIVE SubCloseP(_, _)
SubCloseP(s, i) ==
    IF i > Len(s) THEN <<>>
    ELSE IF ClosePEnd(s, i) # 0 THEN <<LF, LF>> \o SubCloseP(s, ClosePEnd(s, i) + 1)
    ELSE <<s[i]>> \o SubCloseP(s, i + 1)

\* re.sub(r"(?s)<.*?>", "", text), from position i.
RECURSIVE SubTags(_, _)
SubTags(s, i) ==
    IF i > Len(s) THEN <<>>
    ELSE IF s[i] = LT /\ FindChar(s, i + 1, GT) # 0
    THEN SubTags(s, FindChar(s, i + 1, GT) + 1)
    ELSE <<s[i]>> \o SubTags(s, i + 1)

\* re.sub(r"[ \t]+\n", "\n", text), from position i.
RECURSIVE SubTrailing(_, _)
SubTrailing(s, i) ==
    IF i > Len(s) THEN <<>>
    ELSE IF /\ s[i] \in {32, 9}
            /\ SkipBlank(s, i) <= Len(s)
            /\ s[SkipBlank(s, i)] = LF
    THEN <<LF>> \o SubTrailing(s, SkipBlank(s, i) + 1)
    ELSE <<s[i]>> \o SubTrailing(s, i + 1)

strip_html(html) ==
    LET t1 == SubScriptStyle(html, 1)
        t2 == SubBr(t1, 1)
        t3 == SubCloseP(t2, 1)
        t4 == SubTags(t3, 1)
    IN Strip(SubTrailing(t4, 1))

(***************************************************************************)
(* Media types and header names are sequences of one-character strings.    *)
(***************************************************************************)
TextPlain == <<"t","e","x","t","/","p","l","a","i","n">>
TextHtml == <<"t","e","x","t","/","h","t","m","l">>
MultipartPrefix == <<"m","u","l","t","i","p","a","r","t","/">>
MultipartMixed == MultipartPrefix \o <<"m","i","x","e","d">>
MessageRfc822 == <<"m","e","s","s","a","g","e","/","r","f","c","8","2","2">>
ApplicationPdf == <<"a","p","p","l","i","c","a","t","i","o","n","/","p","d","f">>

\* A comparison for equality where the code tests a prefix.
EqualsPrefix(s, prefix) == s = prefix

\* str.startswith
StartsWith(s, prefix) ==
    Len(s) >= Len(prefix) /\ SubSeq(s, 1, Len(prefix)) = prefix

(***************************************************************************)
(* extract_plain_text_from_payload.                                        *)
(***************************************************************************)
\* The two candidates taken in the opposite order.
PickHtmlFirst(plain_candidate, html_candidate) ==
    IF html_candidate # <<>> THEN html_candidate
    ELSE IF plain_candidate # <<>> THEN plain_candidate
    ELSE <<>>

\* Lines 101-104: the loop ended without a nested multipart returning.
PickCandidate(plain_candidate, html_candidate) ==
    IF plain_candidate # <<>> THEN plain_candidate
    ELSE IF html_candidate # <<>> THEN html_candidate
    ELSE <<>>

\* "candidate or new": a candidate once recorded is kept.
KeepFirstCandidate(new, candidate) == IF candidate # <<>> THEN candidate ELSE new

\* Lines 97 and 99: "new or candidate".
UpdateCandidate(new, candidate) == IF new # <<>> THEN new ELSE candidate

\* A nested result that is never returned early (an exception still leaves).
NestedReturnsNever(sub) == sub.exc # "none"

\* Lines 93-95: "if sub: return sub"; an exception leaves the loop as well.
NestedReturns(sub) == sub.exc # "none" \/ sub.val # <<>>

\* Line 86: "parts" in payload.
HasParts(payload) == payload.parts # <<>>

RECURSIVE extract_plain_text_from_payload(_)
RECURSIVE WalkParts(_, _, _, _)

\* The loop of lines 89-99 from child i on, then lines 101-106.
WalkParts(parts, i, plain_candidate, html_candidate) ==
    IF i > Len(parts) THEN Ok(PickCandidate(plain_candidate, html_candidate))
    ELSE LET part == parts[i]
             mt == part.mimeType
         IN
         IF StartsWith(mt, MultipartPrefix)
         THEN LET sub == extract_plain_text_from_payload(part) IN
              IF NestedReturns(sub) THEN sub
              ELSE WalkParts(parts, i + 1, plain_candidate, html_candidate)
         ELSE IF mt = TextPlain /\ part.data # <<>>
         THEN LET d == decode_part(part.data) IN
              IF d.exc # "none" THEN d
              ELSE WalkParts(parts, i + 1,
                             UpdateCandidate(Strip(d.val), plain_candidate),
                             html_candidate)
         ELSE IF mt = TextHtml /\ part.data # <<>>
         THEN LET d == decode_part(part.data) IN
              IF d.exc # "none" THEN d
              ELSE WalkParts(parts, i + 1, plain_candidate,
                             UpdateCandidate(strip_html(d.val), html_candidate))
         ELSE WalkParts(parts, i + 1, plain_candidate, html_candidate)

extract_plain_text_from_payload(payload) ==
    IF payload.mimeType = TextPlain /\ payload.data # <<>>
    THEN LET d == decode_part(payload.data) IN
         IF d.exc # "none" THEN d ELSE Ok(Strip(d.val))
    ELSE IF payload.mimeType = TextHtml /\ payload.data # <<>>
    THEN LET d == decode_part(payload.data) IN
         IF d.exc # "none" THEN d ELSE Ok(strip_html(d.val))
    ELSE IF HasParts(payload)
    THEN WalkParts(payload.parts, 1, <<>>, <<>>)
    ELSE Ok(<<>>)

(***************************************************************************)
(* get_header and fetch_message_fields (after the remote get of line 110). *)
(* A message is [payload, headers, snippet]; snippet = <<>> stands for a   *)
(* missing, None or empty snippet, which line 118 treats alike.            *)
(***************************************************************************)
\* str.lower() on the ASCII letters of a header name.
LowerTable ==
    [c \in {B64Chars[k] : k \in 1..26} |->
        B64Chars[(CHOOSE k \in 1..26 : B64Chars[k] = c) + 26]]

LowerName(s) ==
    [i \in 1..Len(s) |-> IF s[i] \in DOMAIN LowerTable THEN LowerTable[s[i]] ELSE s[i]]

HdrSubject == <<"S","u","b","j","e","c","t">>
HdrFrom == <<"F","r","o","m">>

RECURSIVE get_header(_, _)
get_header(payload_headers, name) ==
    IF payload_headers = <<>> THEN <<>>
    ELSE IF LowerName(Head(payload_headers).name) = LowerName(name)
    THEN Head(payload_headers).value
    ELSE get_header(Tail(payload_headers), name)

\* The fallback without the strip() of line 118.
SnippetUntrimmed(body_text, snippet) ==
    IF body_text = <<>> THEN snippet ELSE body_text

\* Lines 117-118.
SnippetFallback(body_text, snippet) ==
    IF body_text = <<>> THEN Strip(snippet) ELSE body_text

fetch_message_fields(msg) ==
    LET x == extract_plain_text_from_payload(msg.payload) IN
    IF x.exc # "none" THEN x
    ELSE Ok(<< get_header(msg.headers, HdrSubject),
               get_header(msg.headers, HdrFrom),
               SnippetFallback(Strip(x.val), msg.snippet) >>)

(***************************************************************************)
(* get_label_id, and the steps of main() with the lister and the appender. *)
(***************************************************************************)
None == ""

\* The label name main() asks for (line 141).
LabelName == "internships"

RECURSIVE get_label_id(_, _)
get_label_id(labels, label_name) ==
    IF labels = <<>> THEN None
    ELSE IF Head(labels).name = label_name THEN Head(labels).id
    ELSE get_label_id(Tail(labels), label_name)

\* Line 142: "if not label_id".
LabelMissing(label_id) == label_id = None

\* An assignment where the code extends.
ReplaceIds(ids, messages) == messages

\* Line 45: ids.extend(...).
ExtendIds(ids, messages) == ids \o messages

\* Line 47: "if not page_token"; the token of a page is a natural, 0 for none.
NoToken == 0

LastPage(page_token) == page_token = NoToken

\* An insertion at the front where the code appends.
PrependRow(rows, fields) == <<fields>> \o rows

\* Line 152: rows.append([subject, sender, body]).
AppendRow(rows, fields) == Append(rows, fields)

\* Line 153: the only exception type the per-message handler catches.
Caught(e) == e = "HttpError"

\* An appender without the guard of line 126.
NeverSkipsWrite(rows) == FALSE

\* Line 126: "if not rows: return".
SkipsWrite(rows) == rows = <<>>

(***************************************************************************)
(* The inputs: the account's labels, the listed pages, the stored          *)
(* messages and the payload trees.                                         *)
(***************************************************************************)
\* Bodies as the provider sends them (base64url).
DataHi == <<"I","E","h","p","I","A","=","=">>            \* " Hi "
DataYo == <<"W","W","8","=">>                            \* "Yo"
DataBlank == <<"I","C","A","=">>                         \* "  "
DataHtmlOk == <<"P","G","I","-","T","2","s","8","L","2","I","-","I","A","=","=">>
                                                         \* "<b>Ok</b> "
DataHtmlNo == <<"P","H","A","-","T","m","8","8","L","3","A","-">>  \* "<p>No</p>"
DataHtmlBr == <<"P","G","J","y","P","g","=","=">>        \* "<br>"
DataTruncated == <<"S","G","k">>                         \* "SGk", padding lost

Part(m, d, ps) == [mimeType |-> m, data |-> d, parts |-> ps]

\* The parts without children: text parts with and without an inline body,
\* and an attachment.  Their bodies are well-formed base64url; the truncated
\* body appears only in MsgTruncated, a message main() fetches.
LeafLabels ==
    { <<TextPlain, DataHi>>, <<TextPlain, DataYo>>, <<TextPlain, DataBlank>>,
      <<TextPlain, <<>>>>, <<TextHtml, DataHtmlOk>>, <<TextHtml, DataHtmlNo>>,
      <<TextHtml, DataHtmlBr>>, <<ApplicationPdf, DataYo>> }

\* The parts that can carry children: a multipart part and an attached message.
ContainerLabels == { <<MultipartMixed, <<>>>>, <<MessageRfc822, <<>>>> }

PartLabels == LeafLabels \cup ContainerLabels

RECURSIVE Size(_, _)
\* Number of parts of the trees ps[i..].
Size(ps, i) ==
    IF i > Len(ps) THEN 0 ELSE 1 + Size(ps[i].parts, 1) + Size(ps, i + 1)

\* The part d levels down the last-child path of p can take a child.
RECURSIVE CanTakeChild(_, _)
CanTakeChild(p, d) ==
    IF d = 0 THEN <<p.mimeType, p.data>> \in ContainerLabels
    ELSE p.parts # <<>> /\ CanTakeChild(p.parts[Len(p.parts)], d - 1)

\* p with new as the last child of the part d levels down its last-child path.
RECURSIVE WithChild(_, _, _)
WithChild(p, d, new) ==
    IF d = 0 THEN [p EXCEPT !.parts = Append(@, new)]
    ELSE [p EXCEPT !.parts[Len(p.parts)] = WithChild(@, d - 1, new)]

\* msg.get("payload", {}) of a message without payload.
EmptyPayload == Part(<<>>, <<>>, <<>>)

Snippets == { <<>>, <<32, 89, 111, 10>>, <<32, 9>> }    \* absent, " Yo\n", " \t"

SomeHeaders ==
    << [name |-> <<"S","U","B","J","E","C","T">>, value |-> <<82, 101>>],
       [name |-> <<"F","r","o","m">>, value |-> <<97, 64, 98>>],
       [name |-> <<"S","u","b","j","e","c","t">>, value |-> <<50>>] >>

MsgAlternative ==
    [payload |-> Part(MultipartMixed, <<>>,
                      << Part(TextPlain, DataHi, <<>>),
                         Part(TextHtml, DataHtmlOk, <<>>) >>),
     headers |-> SomeHeaders, snippet |-> <<72, 105>>]

MsgAttachmentOnly ==
    [payload |-> Part(ApplicationPdf, DataYo, <<>>),
     headers |-> <<>>, snippet |-> <<32, 89, 111, 10>>]

MsgTruncated ==
    [payload |-> Part(TextPlain, DataTruncated, <<>>),
     headers |-> SomeHeaders, snippet |-> <<72, 105>>]

\* What messages().get(...).execute() does for one identifier: it returns a
\* message, or raises HttpError, or raises an error of the transport.
Responses ==
    { [raises |-> "none", msg |-> m] :
          m \in {MsgAlternative, MsgAttachmentOnly, MsgTruncated} }
    \cup { [raises |-> e, msg |-> MsgAttachmentOnly] : e \in {"HttpError", "TimeoutError"} }

LabelLists ==
    { <<>>,
      << [name |-> "internships", id |-> "Label_7"] >>,
      << [name |-> "Internships", id |-> "Label_3"] >>,
      << [name |-> "INBOX", id |-> "INBOX"], [name |-> "internships", id |-> "Label_7"] >> }

\* The ways to cut the listing <<1, ..., n>> into k pages; page j carries
\* the token j + 1, the last page none.
Cuts(n, k) ==
    { c \in [0..k -> 0..n] :
        c[0] = 0 /\ c[k] = n /\ \A j \in 1..k : c[j - 1] <= c[j] }

PagesOf(n, k, c) ==
    [j \in 1..k |->
        [messages |-> [x \in 1..(c[j] - c[j - 1]) |-> c[j - 1] + x],
         nextPageToken |-> IF j < k THEN j + 1 ELSE NoToken]]

Listings ==
    UNION { { PagesOf(n, k, c) : c \in Cuts(n, k) } :
            n \in 0..MaxMsgs, k \in 1..MaxPages }

\* messages().list(pageToken=...) of the provider holding the pages ps.
ListPage(ps, page_token) == IF page_token = NoToken THEN ps[1] ELSE ps[page_token]

RECURSIVE Concat(_)
Concat(ss) == IF ss = <<>> THEN <<>> ELSE Head(ss) \o Concat(Tail(ss))

Mailboxes(ps) ==
    [1..Len(Concat([j \in 1..Len(ps) |-> ps[j].messages])) -> Responses]

(***************************************************************************)
(* State.                                                                  *)
(***************************************************************************)
VARIABLES
    pages,       \* the provider's pages of message identifiers
    mailbox,     \* identifier -> what fetching it does
    pc,          \* where main() is
    label_id,
    ids,         \* list_message_ids: ids
    page_token,  \* list_message_ids: page_token
    requests,    \* the pageToken of every list request issued, in order
    idx,         \* position of the for loop of line 149 in msg_ids
    fetchLog,    \* the identifiers fetched, in order
    rows,
    writes,      \* the values of every append call issued, in order
    exc,         \* the uncaught exception that ended the run, and where
    payload,     \* the payload handed to the extractor
    snippet,
    xpc,         \* where the extraction run is
    body,        \* result of extract_plain_text_from_payload
    fields       \* result of fetch_message_fields

mainVars == <<pages, mailbox, pc, label_id, ids, page_token, requests, idx,
              fetchLog, rows, writes, exc>>

extractVars == <<payload, snippet, xpc, body, fields>>

vars == <<mainVars, extractVars>>

NoExc == [type |-> "none", at |-> "none"]

MainIdle ==
    /\ pages = <<>> /\ mailbox = <<>> /\ pc = "idle" /\ label_id = None
    /\ ids = <<>> /\ page_token = NoToken /\ requests = <<>> /\ idx = 1
    /\ fetchLog = <<>> /\ rows = <<>> /\ writes = <<>> /\ exc = NoExc

ExtractIdle ==
    /\ payload = EmptyPayload /\ snippet = <<>> /\ xpc = "idle"
    /\ body = Ok(<<>>) /\ fields = Ok(<<>>)

(***************************************************************************)
(* main().                                                                 *)
(***************************************************************************)
Init ==
    /\ pages \in Listings
    /\ mailbox \in Mailboxes(pages)
    /\ pc = "resolve"
    /\ label_id = None
    /\ ids = <<>>
    /\ page_token = NoToken
    /\ requests = <<>>
    /\ idx = 1
    /\ fetchLog = <<>>
    /\ rows = <<>>
    /\ writes = <<>>
    /\ exc = NoExc
    /\ ExtractIdle

Crash(type, at) == pc' = "crashed" /\ exc' = [type |-> type, at |-> at]

\* The for loop of line 149 is over when idx passes the last identifier.
LoopOrAppend(i, msg_ids) == IF i > Len(msg_ids) THEN "append" ELSE "loop"

\* Lines 141-143; the labels request itself can raise HttpError.
ResolveLabel ==
    /\ pc = "resolve"
    /\ \/ \E labels \in LabelLists :
            /\ label_id' = get_label_id(labels, LabelName)
            /\ IF LabelMissing(label_id')
               THEN pc' = "aborted" /\ exc' = [type |-> "RuntimeError", at |-> "resolve"]
               ELSE pc' = "list" /\ exc' = exc
       \/ Crash("HttpError", "resolve") /\ label_id' = label_id
    /\ UNCHANGED <<pages, mailbox, ids, page_token, requests, idx, fetchLog, rows, writes>>
    /\ UNCHANGED extractVars

\* One turn of the while loop of lines 41-48, and line 49 when it breaks.
ListMessages ==
    /\ pc = "list"
    /\ requests' = Append(requests, page_token)
    /\ \/ LET resp == ListPage(pages, page_token) IN
            /\ ids' = ExtendIds(ids, resp.messages)
            /\ page_token' = resp.nextPageToken
            /\ pc' = IF LastPage(page_token') THEN LoopOrAppend(1, ids') ELSE "list"
            /\ exc' = exc
       \/ Crash("HttpError", "list") /\ UNCHANGED <<ids, page_token>>
    /\ UNCHANGED <<pages, mailbox, label_id, idx, fetchLog, rows, writes>>
    /\ UNCHANGED extractVars

\* One turn of the for loop of lines 149-154.
FetchOne ==
    /\ pc = "loop"
    /\ LET mid == ids[idx]
           resp == mailbox[mid]
           got == IF resp.raises # "none" THEN Raised(resp.raises)
                  ELSE fetch_message_fields(resp.msg)
       IN
       /\ fetchLog' = Append(fetchLog, mid)
       /\ IF got.exc = "none"
          THEN /\ rows' = AppendRow(rows, got.val)
               /\ idx' = idx + 1
               /\ pc' = LoopOrAppend(idx', ids)
               /\ exc' = exc
          ELSE IF Caught(got.exc)
          THEN /\ rows' = rows
               /\ idx' = idx + 1
               /\ pc' = LoopOrAppend(idx', ids)
               /\ exc' = exc
          ELSE /\ Crash(got.exc, "fetch")
               /\ UNCHANGED <<rows, idx>>
    /\ UNCHANGED <<pages, mailbox, label_id, ids, page_token, requests, writes>>
    /\ UNCHANGED extractVars

\* Line 156, append_rows_to_sheet (lines 125-135), and line 157.
AppendRows ==
    /\ pc = "append"
    /\ IF SkipsWrite(rows)
       THEN writes' = writes /\ pc' = "done" /\ exc' = exc
       ELSE /\ writes' = Append(writes, rows)
            /\ \/ pc' = "done" /\ exc' = exc
               \/ Crash("HttpError", "append")
    /\ UNCHANGED <<pages, mailbox, label_id, ids, page_token, requests, idx, fetchLog, rows>>
    /\ UNCHANGED extractVars

Next == ResolveLabel \/ ListMessages \/ FetchOne \/ AppendRows

Spec == Init /\ [][Next]_vars

(***************************************************************************)
(* The extractor and the field extractor applied to one fetched message.   *)
(***************************************************************************)
\* The payload starts as one part; AddPart grows it part by part, in the
\* order the parts appear in the message, into any tree of up to MaxNodes
\* parts.
InitExtract ==
    /\ MainIdle
    /\ payload \in { Part(l[1], l[2], <<>>) : l \in PartLabels } \cup { EmptyPayload }
    /\ snippet = <<>>
    /\ xpc = "fetched"
    /\ body = Ok(<<>>)
    /\ fields = Ok(<<>>)

AddPart ==
    /\ xpc = "fetched"
    /\ Size(<<payload>>, 1) < MaxNodes
    /\ \E d \in 0..(MaxNodes - 2), l \in PartLabels :
          /\ CanTakeChild(payload, d)
          /\ payload' = WithChild(payload, d, Part(l[1], l[2], <<>>))
    /\ UNCHANGED <<snippet, xpc, body, fields>>
    /\ UNCHANGED mainVars

\* Line 116, the call of the extractor.
Extract ==
    /\ xpc = "fetched"
    /\ body' = extract_plain_text_from_payload(payload)
    /\ xpc' = "extracted"
    /\ UNCHANGED <<payload, snippet, fields>>
    /\ UNCHANGED mainVars

\* Lines 111-123 on a message with this payload and any of the snippets.
FetchFields ==
    /\ xpc = "fetched"
    /\ \E s \in Snippets :
          /\ snippet' = s
          /\ fields' = fetch_message_fields(
                          [payload |-> payload, headers |-> SomeHeaders, snippet |-> s])
    /\ xpc' = "returned"
    /\ UNCHANGED <<payload, body>>
    /\ UNCHANGED mainVars

NextExtract == AddPart \/ Extract \/ FetchFields

SpecExtract == InitExtract /\ [][NextExtract]_vars

(***************************************************************************)
(* Properties.  The predicates below describe the inputs of a property     *)
(* without going through the operators of the extractor.                   *)
(***************************************************************************)
MultipartTypes == { MultipartMixed }

IsMultipart(p) == p.mimeType \in MultipartTypes

\* A childless part of media type m with an inline body.
IsTextLeaf(p, m) == p.mimeType = m /\ p.data # <<>> /\ p.parts = <<>>

PlainText(p) == Strip(decode_part(p.data).val)

HtmlText(p) == strip_html(decode_part(p.data).val)

\* The text a nested container yields.
NestedText(p) == extract_plain_text_from_payload(p).val

PlainLeaves(ps) == { i \in 1..Len(ps) : IsTextLeaf(ps[i], TextPlain) }

HtmlLeaves(ps) == { i \in 1..Len(ps) : IsTextLeaf(ps[i], TextHtml) }

NonEmptyPlain(ps) == { i \in PlainLeaves(ps) : PlainText(ps[i]) # <<>> }

NonEmptyHtml(ps) == { i \in HtmlLeaves(ps) : HtmlText(ps[i]) # <<>> }

\* The multipart children that yield non-empty text.
Yielding(ps) == { i \in 1..Len(ps) : IsMultipart(ps[i]) /\ NestedText(ps[i]) # <<>> }

Least(S) == CHOOSE i \in S : \A j \in S : i <= j

Greatest(S) == CHOOSE i \in S : \A j \in S : i >= j

LastPlain(ps) ==
    IF NonEmptyPlain(ps) = {} THEN <<>> ELSE PlainText(ps[Greatest(NonEmptyPlain(ps))])

LastHtml(ps) ==
    IF NonEmptyHtml(ps) = {} THEN <<>> ELSE HtmlText(ps[Greatest(NonEmptyHtml(ps))])

FirstPlain(ps) ==
    IF NonEmptyPlain(ps) = {} THEN <<>> ELSE PlainText(ps[Least(NonEmptyPlain(ps))])

FirstHtml(ps) ==
    IF NonEmptyHtml(ps) = {} THEN <<>> ELSE HtmlText(ps[Least(NonEmptyHtml(ps))])

RECURSIVE NoInlineText(_)
NoInlineText(p) ==
    /\ ~(p.mimeType \in {TextPlain, TextHtml} /\ p.data # <<>>)
    /\ \A i \in 1..Len(p.parts) : NoInlineText(p.parts[i])

\* The rows the stored messages give, written out.
RowOf(m) ==
    IF m = MsgAlternative THEN << <<82, 101>>, <<97, 64, 98>>, <<72, 105>> >>
    ELSE IF m = MsgAttachmentOnly THEN << <<>>, <<>>, <<89, 111>> >>
    ELSE << >>

RECURSIVE RowsOfNonFailing(_)
RowsOfNonFailing(msg_ids) ==
    IF msg_ids = <<>> THEN <<>>
    ELSE IF mailbox[Head(msg_ids)].raises = "HttpError"
    THEN RowsOfNonFailing(Tail(msg_ids))
    ELSE <<RowOf(mailbox[Head(msg_ids)].msg)>> \o RowsOfNonFailing(Tail(msg_ids))

AllListed == Concat([j \in 1..Len(pages) |-> pages[j].messages])

\* The run is past the for loop of main().
PastLoop == pc \in {"append", "done"} \/ exc.at = "append"

\* The run is past list_message_ids.
PastListing == pc \in {"loop", "append", "done"} \/ exc.at \in {"fetch", "append"}

\* C1: when the fetch of some identifiers raises HttpError, the rows handed
\* to the append step are exactly the rows of the other identifiers, in
\* listed order, without a placeholder; an HttpError never ends the loop, so
\* every identifier after a failing one is fetched.
C1_PartialFailureIsolation ==
    /\ PastLoop => fetchLog = ids /\ rows = RowsOfNonFailing(ids)
    /\ writes # <<>> => writes[1] = RowsOfNonFailing(ids)
    /\ exc.at = "fetch" => mailbox[fetchLog[Len(fetchLog)]].raises # "HttpError"

C1_Witness ==
    /\ pc = "done"
    /\ Len(ids) = 3
    /\ mailbox[1].raises = "none" /\ mailbox[1].msg = MsgAlternative
    /\ mailbox[2].raises = "HttpError"
    /\ mailbox[3].raises = "none" /\ mailbox[3].msg = MsgAttachmentOnly
    /\ rows = << RowOf(MsgAlternative), RowOf(MsgAttachmentOnly) >>
    /\ fetchLog = <<1, 2, 3>>
    /\ writes = <<rows>>

\* C2: for a provider of N pages the lister issues exactly N list requests,
\* the first without a token and each later one with the token of the page
\* before, and returns the concatenation of the pages' identifiers.
C2_PaginationCompleteness ==
    /\ Len(requests) <= Len(pages)
    /\ PastListing =>
          /\ Len(requests) = Len(pages)
          /\ \A i \in 1..Len(requests) :
                requests[i] = IF i = 1 THEN NoToken ELSE pages[i - 1].nextPageToken
          /\ ids = AllListed

C2_Witness ==
    /\ pc = "loop"
    /\ Len(pages) = 2
    /\ pages[1].messages # <<>> /\ pages[2].messages # <<>>
    /\ requests = <<NoToken, pages[1].nextPageToken>>
    /\ ids = pages[1].messages \o pages[2].messages

\* C3: no failure that arises while fetching or parsing one message ends the
\* run: the run ends DONE or with the label-not-found abort.
C3_NoFetchFailureEndsRun == ~(pc = "crashed" /\ exc.at = "fetch")

\* C4: no append call is issued for an empty row sequence; otherwise exactly
\* one is issued, it carries all rows in order, and it is issued only after
\* every listed identifier has been processed.
C4_SingleBatchedWrite ==
    /\ Len(writes) <= 1
    /\ writes # <<>> =>
          /\ writes[1] = rows /\ rows # <<>>
          /\ fetchLog = ids
          /\ pc \in {"done", "crashed"}
    /\ pc = "done" => writes = IF rows = <<>> THEN <<>> ELSE <<rows>>
    /\ pc = "done" /\ rows = <<>> => writes = <<>>

C4_Witness ==
    /\ pc = "done"
    /\ Len(ids) = 3
    /\ Len(rows) = 3
    /\ writes = <<rows>>

\* The trees C5 is about.
C5_Case ==
    /\ xpc = "extracted"
    /\ IsMultipart(payload)
    /\ Len(payload.parts) >= 2
    /\ IsMultipart(payload.parts[1])
    /\ NestedText(payload.parts[1]) # <<>>
    /\ IsTextLeaf(payload.parts[2], TextPlain)
    /\ PlainText(payload.parts[2]) # NestedText(payload.parts[1])

\* C5: in a multipart tree whose first child is a multipart container that
\* yields non-empty text T and whose second child is a text/plain leaf with
\* a different text, the result is T.
C5_NestedShortCircuit == C5_Case => body = Ok(NestedText(payload.parts[1]))

C5_Witness ==
    /\ C5_Case
    /\ PlainText(payload.parts[2]) # <<>>
    /\ body.val = NestedText(payload.parts[1])
    /\ body.val # PlainText(payload.parts[2])

\* The trees C6 is about.
C6_Case ==
    /\ xpc = "extracted"
    /\ IsMultipart(payload)
    /\ \A i \in 1..Len(payload.parts) : ~IsMultipart(payload.parts[i])
    /\ PlainLeaves(payload.parts) # {}
    /\ HtmlLeaves(payload.parts) # {}

\* C6 as stated: with a text/plain leaf and a text/html leaf among the direct
\* children of a multipart part without a nested multipart child, the result
\* is the trimmed decoded text of the text/plain leaf.
C6_PlainLeafTextReturned ==
    \A i \in 1..Len(payload.parts) :
        C6_Case /\ PlainLeaves(payload.parts) = {i}
            => body = Ok(PlainText(payload.parts[i]))

\* C6 amended: the result is the trimmed text of the last text/plain leaf
\* whose trimmed text is non-empty; when every text/plain leaf is blank it
\* is the stripped text of the last text/html leaf with non-empty text.
C6_PlainPreferredWhenNonEmpty ==
    C6_Case =>
        /\ NonEmptyPlain(payload.parts) # {} => body = Ok(LastPlain(payload.parts))
        /\ NonEmptyPlain(payload.parts) = {} => body = Ok(LastHtml(payload.parts))

C6_Witness ==
    /\ C6_Case
    /\ Len(payload.parts) = 2
    /\ IsTextLeaf(payload.parts[1], TextHtml)
    /\ HtmlText(payload.parts[1]) # <<>>
    /\ IsTextLeaf(payload.parts[2], TextPlain)
    /\ body.val = PlainText(payload.parts[2])
    /\ body.val # HtmlText(payload.parts[1])
    /\ body.val # <<>>

\* The snippets of the model, trimmed by hand.
TrimmedSnippet(s) == IF s = <<32, 89, 111, 10>> THEN <<89, 111>> ELSE <<>>

\* C7: a message whose payload has no text/plain and no text/html part with
\* an inline body anywhere is fetched successfully and its body is the
\* trimmed snippet, empty when the snippet is absent or blank.
C7_SnippetFallback ==
    xpc = "returned" /\ NoInlineText(payload)
        => fields.exc = "none" /\ fields.val[3] = TrimmedSnippet(snippet)

C7_Witness ==
    /\ xpc = "returned"
    /\ NoInlineText(payload)
    /\ Len(payload.parts) = 2
    /\ snippet = <<32, 89, 111, 10>>
    /\ fields = Ok(<< <<82, 101>>, <<97, 64, 98>>, <<89, 111>> >>)

\* The trees C8 is about.
C8_Case ==
    /\ xpc = "extracted"
    /\ IsMultipart(payload)
    /\ Yielding(payload.parts) = {}

\* C8 as stated: among the leaf children of a multipart part none of whose
\* nested multipart children yields text, the first text/plain leaf with
\* non-empty trimmed text is the plain candidate, and likewise for text/html.
C8_FirstNonEmptyWins ==
    C8_Case =>
        body = Ok(IF FirstPlain(payload.parts) # <<>> THEN FirstPlain(payload.parts)
                  ELSE FirstHtml(payload.parts))

\* C8 amended: the last leaf with non-empty text wins: a later text/plain
\* (text/html) leaf with non-empty text replaces the plain (html) candidate
\* recorded before it, and one with empty text leaves it in place.
C8_LastNonEmptyWins ==
    C8_Case =>
        body = Ok(IF LastPlain(payload.parts) # <<>> THEN LastPlain(payload.parts)
                  ELSE LastHtml(payload.parts))

C8_Witness ==
    /\ C8_Case
    /\ Cardinality(NonEmptyPlain(payload.parts)) >= 2
    /\ body.val = LastPlain(payload.parts)
    /\ body.val # FirstPlain(payload.parts)

\* C9: a part that is neither text/plain nor text/html with an inline body,
\* nor of a multipart/* media type, gives the empty string whatever child
\* parts it carries.
C9_OnlyMultipartIterated ==
    /\ xpc = "extracted"
    /\ ~(payload.mimeType \in {TextPlain, TextHtml} /\ payload.data # <<>>)
    /\ ~IsMultipart(payload)
    => body = Ok(<<>>)

\* C10: in a multipart part, when some multipart child yields non-empty
\* text, the result is the text of the first such child, also when a leaf
\* with non-empty text comes before it.
C10_NestedOverridesCandidates ==
    xpc = "extracted" /\ IsMultipart(payload) /\ Yielding(payload.parts) # {}
        => body = Ok(NestedText(payload.parts[Least(Yielding(payload.parts))]))

C10_Witness ==
    /\ xpc = "extracted"
    /\ IsMultipart(payload)
    /\ Len(payload.parts) = 2
    /\ IsTextLeaf(payload.parts[1], TextPlain)
    /\ PlainText(payload.parts[1]) # <<>>
    /\ Yielding(payload.parts) = {2}
    /\ body.val = NestedText(payload.parts[2])
    /\ body.val # PlainText(payload.parts[1])

=============================================================================
